---- MODULE Spec2Model ----
(***************************************************************************)
(* A model of the check-in timeline of dh7qc/CS2001-HW03:                  *)
(*   checkin.py           CheckIn            (the record)                  *)
(*   checkin_timeline.py  CheckInTimeline    (add, windows, rendezvous)    *)
(*   main.py              load_timeline, main                              *)
(*                                                                         *)
(* A value of CheckIn.time is a Python value of type datetime or str: it   *)
(* has its type and, as `at`, its place in the order of the values of that *)
(* type (for a datetime the seconds since the first time stamp of the      *)
(* model, for a time text the seconds of the instant it writes; texts of   *)
(* one format are ordered like their instants).  A time delta is a number  *)
(* of seconds.                                                             *)
(* A tuple of CheckIn objects is a sequence of positions in                *)
(* self.checkins: Python tuples hold references to the objects of the      *)
(* list, and a position names the object when the list is not modified.    *)
(* Positions are 1-based here, 0-based in the source.                      *)
(***************************************************************************)
EXTENDS Integers, Sequences, FiniteSets, TLC

VARIABLES
    checkins,     \* CheckInTimeline.checkins
    added,        \* the arguments of the add calls made so far, in call order
    gen,          \* the generator object of the current windows/rendezvous call
    calls,        \* how many generator calls were made on the loaded timeline
    prev,         \* what the previous, finished generator produced
    loaded,       \* the record list as the loader left it
    pc,           \* main: position in main()
    args,         \* main: the parsed command line (exchanges, skip)
    csvfile,      \* main: the input file: whether it can be opened, its rows
    rownum,       \* main: rows of csvfile consumed by load_timeline
    dict,         \* main: my_dict / dict, as the set of names that have an entry
    printed,      \* main: what was printed, by category
    exit_status   \* main: the exit status of the process once pc = "done"

vars == <<checkins, added, gen, calls, prev, loaded,
          pc, args, csvfile, rownum, dict, printed, exit_status>>

timelineVars == <<checkins, added>>
queryVars == <<gen, calls, prev, loaded>>
mainVars == <<pc, args, csvfile, rownum, dict, printed, exit_status>>

-----------------------------------------------------------------------------
(* Bounds *)

\* Distance in seconds between two neighbouring time stamps of the model.
Tick == 1800
\* Time stamps are 0, Tick, ..., MaxTick * Tick.
MaxTick == 2
\* Number of add calls in the specification of add.
MaxAdds == 3
\* Length of the timelines that windows and rendezvous are run on.
MaxLen == 4
\* Number of rows of the input file of main.
MaxRows == 3

\* datetime.timedelta(0, 3600), the default window_size.
DefaultWindow == 3600

Names == {"Ash"}
Pokeballs == {1}
Locations == {"Vault", "Cave"}

\* datetime.datetime values, and the texts of the time column of a file.
Datetime(seconds) == [type |-> "datetime", at |-> seconds]
Str(seconds) == [type |-> "str", at |-> seconds]
Times == {Datetime(k * Tick) : k \in 0..MaxTick}

\* A time text that is no date-time, such as "not-a-time"; Python orders it
\* after every text that starts with a digit.
BadTime == Str((MaxTick + 1) * Tick)
TimeTexts == {Str(k * Tick) : k \in 0..MaxTick} \cup {BadTime}

WindowSizes == {0 - Tick, 0, Tick, DefaultWindow, DefaultWindow + Tick}

-----------------------------------------------------------------------------
(* checkin.py *)

\* CheckIn.__init__: the four arguments are stored as they are given.
CheckIn(name, pokeball, location, time) ==
    [name |-> name, pokeball |-> pokeball, location |-> location, time |-> time]

\* CheckIn.__lt__, on two times of the same type.
Lt(self, other) == self.time.at < other.time.at

\* CheckIn.__le__, on two times of the same type.
Le(self, other) == self.time.at <= other.time.at

CheckIns == {CheckIn(n, p, l, t) : n \in Names, p \in Pokeballs,
                                   l \in Locations, t \in Times}

-----------------------------------------------------------------------------
(* checkin_timeline.py: add *)

\* A faulty variant of InsertSorted: x goes before the elements equal to it.
InsertBeforeEqual(s, x) ==
    LET before == SelectSeq(s, LAMBDA e : Lt(e, x))
        after == SelectSeq(s, LAMBDA e : ~Lt(e, x))
    IN  before \o <<x>> \o after

\* One insertion of the stable sort: x is placed after every element that
\* is not greater than x (sorted compares with __lt__ only, and is stable).
InsertSorted(s, x) ==
    LET before == SelectSeq(s, LAMBDA e : ~Lt(x, e))
        after == SelectSeq(s, LAMBDA e : Lt(x, e))
    IN  before \o <<x>> \o after

\* A faulty variant of sorted: the list is returned as it is.
NotSorted(s) == s

RECURSIVE sorted(_)
\* sorted(self.checkins): a stable sort by CheckIn.__lt__.
sorted(s) ==
    IF s = <<>> THEN <<>>
    ELSE InsertSorted(sorted(SubSeq(s, 1, Len(s) - 1)), s[Len(s)])

\* CheckInTimeline.add
add(self, checkin) == sorted(Append(self, checkin))

-----------------------------------------------------------------------------
(* checkin_timeline.py: windows *)

\* A faulty variant of InWindow: a check-in exactly window_size after the first one
\* is taken into the window.
InWindowInclusive(time1, time2, window_size) ==
    (time2.at - time1.at) <= window_size

\* The test of line 88: (time2 - time1) < window_size
InWindow(time1, time2, window_size) == (time2.at - time1.at) < window_size

\* time2 - time1 raises TypeError unless both are datetime values (str has
\* no subtraction).
SubtractRaises(time1, time2) ==
    time1.type # "datetime" \/ time2.type # "datetime"

RECURSIVE ScanWindow(_, _, _, _, _, _)
\* The inner loop of windows, lines 83-91, from index2 on: tup grows by the
\* check-ins within window_size of checkin1 and the loop breaks at the first
\* one that is not.
ScanWindow(cs, size, index, index2, window_size, tup) ==
    IF index2 > size THEN tup
    ELSE IF InWindow(cs[index].time, cs[index2].time, window_size)
         THEN ScanWindow(cs, size, index, index2 + 1, window_size,
                         Append(tup, index2))
         ELSE tup

RECURSIVE ScanRaises(_, _, _, _, _)
\* Whether the inner loop of windows raises TypeError before it ends.
ScanRaises(cs, size, index, index2, window_size) ==
    IF index2 > size THEN FALSE
    ELSE IF SubtractRaises(cs[index].time, cs[index2].time) THEN TRUE
    ELSE IF InWindow(cs[index].time, cs[index2].time, window_size)
         THEN ScanRaises(cs, size, index, index2 + 1, window_size)
         ELSE FALSE

\* A faulty variant of WindowsResume: the loop stops one record early.
WindowsResumeShort(cs, size, index, window_size) ==
    IF index >= size
    THEN [event |-> "StopIteration", index |-> index, tup |-> <<>>]
    ELSE [event |-> "yield", index |-> index + 1,
          tup |-> ScanWindow(cs, size, index, index, window_size, <<>>)]

\* One next() on the generator of windows, lines 74-93: the body of the
\* outer loop for `index`, up to its yield, or the end of the loop.
WindowsResume(cs, size, index, window_size) ==
    IF index > size
    THEN [event |-> "StopIteration", index |-> index, tup |-> <<>>]
    ELSE IF ScanRaises(cs, size, index, index, window_size)
    THEN [event |-> "TypeError", index |-> index, tup |-> <<>>]
    ELSE [event |-> "yield", index |-> index + 1,
          tup |-> ScanWindow(cs, size, index, index, window_size, <<>>)]

-----------------------------------------------------------------------------
(* checkin_timeline.py: rendezvous *)

\* A faulty variant of SameLocation: every other check-in of the window is taken.
AnyLocation(cs, first, other) == TRUE

\* The test of line 130: first_checkin_loc == other_checkin
SameLocation(cs, first, other) == cs[first].location = cs[other].location

\* Lines 121-131: the first check-in of the window, then the others of the
\* window that have its location.
Group(cs, window) ==
    <<window[1]>> \o
    SelectSeq(Tail(window), LAMBDA other : SameLocation(cs, window[1], other))

\* A faulty variant of Decide: a group of more than two is cut to a pair.
DecidePickPair(tup) ==
    IF Len(tup) < 2 THEN [event |-> "skip", tup |-> <<>>]
    ELSE [event |-> "yield", tup |-> SubSeq(tup, 1, 2)]

\* A faulty variant of Decide: a group of more than two is skipped.
DecideSkipLarge(tup) ==
    IF Len(tup) = 2 THEN [event |-> "yield", tup |-> tup]
    ELSE [event |-> "skip", tup |-> <<>>]

\* Lines 133-142: what becomes of the group of one window.
Decide(tup) ==
    IF Len(tup) < 2 THEN [event |-> "skip", tup |-> <<>>]
    ELSE IF Len(tup) = 2 THEN [event |-> "yield", tup |-> tup]
    ELSE [event |-> "DataError", tup |-> <<>>]

RECURSIVE RendezvousResume(_, _, _, _)
\* One next() on the generator of rendezvous, lines 119-142: windows are
\* taken from self.windows(window_size) until one yields a pair, one raises,
\* or there are no more. `index` is the position of the windows generator.
RendezvousResume(cs, size, index, window_size) ==
    LET w == WindowsResume(cs, size, index, window_size)
    IN  IF w.event # "yield" THEN w
        ELSE IF w.tup = <<>>
        THEN [event |-> "IndexError", index |-> w.index, tup |-> <<>>]
        ELSE LET d == Decide(Group(cs, w.tup))
             IN  IF d.event = "skip"
                 THEN RendezvousResume(cs, size, w.index, window_size)
                 ELSE [event |-> d.event, index |-> w.index, tup |-> d.tup]

\* The generator object after one next(): a yield appends to what was
\* produced, anything else closes the generator (an exception that leaves a
\* generator's body ends it; StopIteration is its normal end).
Resumed(g, r) ==
    IF r.event = "yield"
    THEN [g EXCEPT !.index = r.index, !.out = Append(g.out, r.tup)]
    ELSE [g EXCEPT !.index = r.index, !.state = "closed",
                   !.err = IF r.event = "StopIteration" THEN "none" ELSE r.event]

\* A call of windows(window_size) or rendezvous(window_size): a new
\* generator object. size is len(self.checkins), line 72.
NewGen(kind, window_size, cs) ==
    [kind |-> kind, window_size |-> window_size, size |-> Len(cs), index |-> 1,
     state |-> "open", err |-> "none", out |-> <<>>]

IdleGen == [kind |-> "none", window_size |-> 0, size |-> 0, index |-> 1,
            state |-> "closed", err |-> "none", out |-> <<>>]
NoPrev == [out |-> <<>>, err |-> "none"]

QueryIdle ==
    /\ gen = IdleGen
    /\ calls = 0
    /\ prev = NoPrev
    /\ loaded = <<>>

MainIdle ==
    /\ pc = "none"
    /\ args = [exchanges |-> FALSE, skip |-> FALSE]
    /\ csvfile = [exists |-> FALSE, rows |-> <<>>]
    /\ rownum = 0
    /\ dict = {}
    /\ printed = <<>>
    /\ exit_status = 0

\* CheckInTimeline.__init__
Init ==
    /\ checkins = <<>>
    /\ added = <<>>
    /\ QueryIdle
    /\ MainIdle

\* timeline.add(checkin)
Add ==
    /\ Len(added) < MaxAdds
    /\ \E checkin \in CheckIns :
          /\ checkins' = add(checkins, checkin)
          /\ added' = Append(added, checkin)
    /\ UNCHANGED <<queryVars, mainVars>>

Next == Add

Spec == Init /\ [][Next]_vars

-----------------------------------------------------------------------------
(* windows and rendezvous on a filled timeline whose records hold datetime *)
(* times (checkin.py, line 12).  As in main, lines 105-137, the timeline   *)
(* is filled first and the generators are then called on it, a second time *)
(* when the first call has ended.                                          *)

BoundedSeqs(S, n) == UNION {[1..k -> S] : k \in 0..n}

RECURSIVE AddAll(_)
\* timeline.add for each element of s, in order, on an empty timeline.
AddAll(s) ==
    IF s = <<>> THEN <<>>
    ELSE add(AddAll(SubSeq(s, 1, Len(s) - 1)), s[Len(s)])

Timelines == {AddAll(s) : s \in BoundedSeqs(CheckIns, MaxLen)}

InitQuery ==
    /\ checkins \in Timelines
    /\ added = checkins
    /\ loaded = checkins
    /\ gen = IdleGen
    /\ calls = 0
    /\ prev = NoPrev
    /\ MainIdle

\* timeline.windows(window_size)
CallWindows ==
    /\ calls = 0
    /\ \E window_size \in WindowSizes :
          gen' = NewGen("windows", window_size, checkins)
    /\ calls' = 1
    /\ UNCHANGED <<timelineVars, prev, loaded, mainVars>>

\* timeline.rendezvous(window_size)
CallRendezvous ==
    /\ calls = 0
    /\ \E window_size \in WindowSizes :
          gen' = NewGen("rendezvous", window_size, checkins)
    /\ calls' = 1
    /\ UNCHANGED <<timelineVars, prev, loaded, mainVars>>

\* next() on the open generator of windows
WindowsNext ==
    /\ gen.kind = "windows"
    /\ gen.state = "open"
    /\ gen' = Resumed(gen, WindowsResume(checkins, gen.size, gen.index,
                                         gen.window_size))
    /\ UNCHANGED <<timelineVars, calls, prev, loaded, mainVars>>

\* next() on the open generator of rendezvous
RendezvousNext ==
    /\ gen.kind = "rendezvous"
    /\ gen.state = "open"
    /\ gen' = Resumed(gen, RendezvousResume(checkins, gen.size, gen.index,
                                            gen.window_size))
    /\ UNCHANGED <<timelineVars, calls, prev, loaded, mainVars>>

\* next() on a generator that has ended: StopIteration, nothing is produced.
ClosedNext ==
    /\ gen.kind # "none"
    /\ gen.state = "closed"
    /\ UNCHANGED vars

\* A faulty variant of CallAgain: the second call goes on where the first one ended.
CallAgainNoRestart ==
    /\ calls = 1
    /\ gen.state = "closed"
    /\ prev' = [out |-> gen.out, err |-> gen.err]
    /\ gen' = [gen EXCEPT !.state = "open", !.err = "none", !.out = <<>>]
    /\ calls' = 2
    /\ UNCHANGED <<timelineVars, loaded, mainVars>>

\* The same generator function called a second time with the same
\* window_size, once the first generator has ended (main, lines 119, 129).
CallAgain ==
    /\ calls = 1
    /\ gen.state = "closed"
    /\ prev' = [out |-> gen.out, err |-> gen.err]
    /\ gen' = NewGen(gen.kind, gen.window_size, checkins)
    /\ calls' = 2
    /\ UNCHANGED <<timelineVars, loaded, mainVars>>

NextQuery ==
    \/ CallWindows
    \/ CallRendezvous
    \/ WindowsNext
    \/ RendezvousNext
    \/ ClosedNext
    \/ CallAgain

SpecQuery == InitQuery /\ [][NextQuery]_vars

-----------------------------------------------------------------------------
(* main.py: load_timeline and main.  The records are built from the texts  *)
(* of the file's rows.  args.pokemon is '' (the final report prints the    *)
(* dictionary).                                                            *)

\* The second column of a row: the code of a Pokeball, or a code that the
\* enumeration does not have.
BallCodes == Pokeballs \cup {0}

\* Pokeball(int(ball_type)) raises ValueError.
PokeballRaises(ball_type) == ball_type \notin Pokeballs

\* The rows of the input file: five columns, or a row that is short of one.
ShortRow == [cols |-> 4, name |-> "Ash", ball_type |-> 1, location |-> "Vault",
             time |-> Str(0), init_poke |-> ""]
Rows ==
    {[cols |-> 5, name |-> n, ball_type |-> b, location |-> "Vault",
      time |-> t, init_poke |-> p] :
        n \in Names, b \in BallCodes, t \in TimeTexts,
        p \in {"", "Pikachu"}}
    \cup {ShortRow}

OSErrorMsg == "OSError"
ValueErrorMsg == "ValueError: Problem loading data from a row in the file."
DataErrorMsg == "DataError: semantically incorrect data, abort."
ExchangeMsg == "meets with to exchange"
NothingMsg == "but nothing happened."
DictMsg == "dict"
\* A line written by print, and the traceback of an unhandled exception.
Stdout(message) == [stream |-> "stdout", text |-> message]
Traceback(exception) == [stream |-> "stderr", text |-> exception]

InitMain ==
    /\ checkins = <<>>
    /\ added = <<>>
    /\ QueryIdle
    /\ pc = "start"
    /\ args \in [exchanges : BOOLEAN, skip : BOOLEAN]
    /\ csvfile \in {[exists |-> FALSE, rows |-> <<>>]} \cup
                   {[exists |-> TRUE, rows |-> r] : r \in BoundedSeqs(Rows, MaxRows)}
    /\ rownum = 0
    /\ dict = {}
    /\ printed = <<>>
    /\ exit_status = 0

\* An exception that no except clause of main takes: the interpreter prints
\* the traceback and the process ends with status 1.
Uncaught(exception) ==
    /\ pc' = "done"
    /\ printed' = Append(printed, Traceback(exception))
    /\ exit_status' = 1

\* print(message); sys.exit(1)
PrintAndExit(message) ==
    /\ pc' = "done"
    /\ printed' = Append(printed, Stdout(message))
    /\ exit_status' = 1

\* main line 105 into load_timeline lines 43-46: open(filename); an OSError
\* is taken by main's first except clause, lines 106-108.
LoadTimelineOpen ==
    /\ pc = "start"
    /\ IF csvfile.exists
       THEN /\ pc' = "loading"
            /\ UNCHANGED <<printed, exit_status>>
       ELSE PrintAndExit(OSErrorMsg)
    /\ UNCHANGED <<timelineVars, queryVars, args, csvfile, rownum, dict>>

\* load_timeline lines 49-61 for one row; a ValueError is taken by main's
\* second except clause, lines 109-111.
LoadTimelineRow ==
    /\ pc = "loading"
    /\ rownum < Len(csvfile.rows)
    /\ LET row == csvfile.rows[rownum + 1]
       IN  IF row.cols # 5
           THEN /\ PrintAndExit(ValueErrorMsg)
                /\ UNCHANGED <<timelineVars, rownum, dict>>
           ELSE /\ dict' = IF row.init_poke # "" THEN dict \cup {row.name}
                                                  ELSE dict
                /\ IF PokeballRaises(row.ball_type)
                   THEN /\ PrintAndExit(ValueErrorMsg)
                        /\ UNCHANGED <<timelineVars, rownum>>
                   ELSE LET checkin == CheckIn(row.name, row.ball_type,
                                               row.location, row.time)
                        IN  /\ checkins' = add(checkins, checkin)
                            /\ added' = Append(added, checkin)
                            /\ rownum' = rownum + 1
                            /\ UNCHANGED <<pc, printed, exit_status>>
    /\ UNCHANGED <<queryVars, args, csvfile>>

\* load_timeline line 63, main line 117: with --exchanges the first
\* rendezvous() call.
LoadTimelineReturn ==
    /\ pc = "loading"
    /\ rownum = Len(csvfile.rows)
    /\ pc' = "exchanges"
    /\ gen' = IF args.exchanges THEN NewGen("rendezvous", DefaultWindow, checkins)
                                ELSE IdleGen
    /\ UNCHANGED <<timelineVars, calls, prev, loaded,
                   args, csvfile, rownum, dict, printed, exit_status>>

\* What the for statement of line 119 or 129 does with the generator: the
\* next pair, the end of the loop, or an exception raised by rendezvous.
LoopStep == RendezvousResume(checkins, gen.size, gen.index, gen.window_size)

\* main lines 117-125, one turn of the loop, or line 128 when the loop is
\* over or --exchanges was not given.
ExchangesLoop ==
    /\ pc = "exchanges"
    /\ IF ~args.exchanges \/ LoopStep.event = "StopIteration"
       THEN /\ pc' = "skip"
            /\ gen' = IF args.skip
                      THEN NewGen("rendezvous", DefaultWindow, checkins)
                      ELSE IdleGen
            /\ UNCHANGED <<printed, exit_status>>
       ELSE /\ gen' = Resumed(gen, LoopStep)
            /\ IF LoopStep.event # "yield"
               THEN Uncaught(LoopStep.event)
               ELSE LET p1 == checkins[LoopStep.tup[1]]
                        p2 == checkins[LoopStep.tup[2]]
                    IN  IF p1.pokeball # p2.pokeball
                        THEN UNCHANGED <<pc, printed, exit_status>>
                        ELSE IF {p1.name, p2.name} \subseteq dict
                        THEN /\ printed' = Append(printed, Stdout(ExchangeMsg))
                             /\ UNCHANGED <<pc, exit_status>>
                        ELSE Uncaught("KeyError")
    /\ UNCHANGED <<timelineVars, calls, prev, loaded, args, csvfile, rownum, dict>>

\* main lines 128-137, one turn of the loop, or line 140 when the loop is
\* over or --skip was not given.
SkipLoop ==
    /\ pc = "skip"
    /\ IF ~args.skip \/ LoopStep.event = "StopIteration"
       THEN /\ pc' = "report"
            /\ gen' = IdleGen
            /\ UNCHANGED <<printed, exit_status>>
       ELSE /\ gen' = Resumed(gen, LoopStep)
            /\ IF LoopStep.event # "yield"
               THEN Uncaught(LoopStep.event)
               ELSE LET p1 == checkins[LoopStep.tup[1]]
                        p2 == checkins[LoopStep.tup[2]]
                    IN  IF p1.pokeball # p2.pokeball
                        THEN /\ printed' = Append(printed, Stdout(NothingMsg))
                             /\ UNCHANGED <<pc, exit_status>>
                        ELSE UNCHANGED <<pc, printed, exit_status>>
    /\ UNCHANGED <<timelineVars, calls, prev, loaded, args, csvfile, rownum, dict>>

\* main lines 148-151: the dictionary is printed and main returns.
Report ==
    /\ pc = "report"
    /\ pc' = "done"
    /\ printed' = Append(printed, Stdout(DictMsg))
    /\ UNCHANGED <<timelineVars, queryVars, args, csvfile, rownum, dict, exit_status>>

NextMain ==
    \/ LoadTimelineOpen
    \/ LoadTimelineRow
    \/ LoadTimelineReturn
    \/ ExchangesLoop
    \/ SkipLoop
    \/ Report

SpecMain == InitMain /\ [][NextMain]_vars

-----------------------------------------------------------------------------
(* Claims about add *)

IsSorted(s) == \A i \in 1..(Len(s) - 1) : s[i].time.at <= s[i + 1].time.at

\* C1: after every add call the record list is in non-decreasing time
\* stamp order: checkins[i].time <= checkins[i+1].time for all adjacent i.
C1_SortedAfterEachAdd == IsSorted(checkins)

\* C1 witness: records were added out of time order and the list holds them.
C1_Witness ==
    /\ Len(added) = MaxAdds
    /\ added[1].time.at > added[2].time.at
    /\ added[2].time.at > added[3].time.at

Rearrangements(n) ==
    {p \in [1..n -> 1..n] : \A i, j \in 1..n : i # j => p[i] # p[j]}

\* s is t reordered by a permutation that is increasing on equal time stamps.
IsStableArrangement(s, t) ==
    /\ Len(s) = Len(t)
    /\ \E p \in Rearrangements(Len(t)) :
          /\ \A i \in 1..Len(s) : s[i] = t[p[i]]
          /\ \A i, j \in 1..Len(s) :
                (i < j /\ s[i].time = s[j].time) => p[i] < p[j]

\* C2: after n add calls the record list is the stable sort by time stamp
\* of the insertion sequence: n entries, the same records with the same
\* multiplicities, time-ordered, records of equal time stamps in the order
\* in which they were added.
C2_StableSortOfAdded ==
    /\ Len(checkins) = Len(added)
    /\ IsSorted(checkins)
    /\ IsStableArrangement(checkins, added)

\* C2 witness: two different records with the same time stamp were added,
\* and a later-added earlier record had to move in front of them.
C2_Witness ==
    /\ Len(added) = MaxAdds
    /\ added[1].time = added[2].time
    /\ added[1] # added[2]
    /\ added[3].time.at < added[1].time.at

-----------------------------------------------------------------------------
(* Claims about windows *)

Offset(i, j) == checkins[j].time.at - checkins[i].time.at

IsPrefix(s, t) == Len(s) <= Len(t) /\ s = SubSeq(t, 1, Len(s))

\* The window of anchor k is the run k, k+1, ... of records less than
\* window_size after the anchor, and the record after the run is not.
IsMaximalRun(win, k, window_size) ==
    /\ Len(win) >= 1
    /\ \A j \in 1..Len(win) :
          /\ win[j] = k + j - 1
          /\ win[j] <= Len(checkins)
          /\ checkins[k].time.at <= checkins[win[j]].time.at
          /\ Offset(k, win[j]) < window_size
    /\ k + Len(win) <= Len(checkins) => Offset(k, k + Len(win)) >= window_size

\* C3: for positive window_size the i-th window yielded by windows starts
\* with the i-th record and is the maximal contiguous run of records whose
\* offset from it is strictly less than window_size; the record right after
\* the run has an offset >= window_size.
C3_WindowIsMaximalRun ==
    (gen.kind = "windows" /\ gen.window_size > 0) =>
        \A k \in 1..Len(gen.out) : IsMaximalRun(gen.out[k], k, gen.window_size)

\* C3 witness: a window of two or more records was yielded whose run ends
\* before a record that is exactly window_size after the anchor.
C3_Witness ==
    /\ gen.kind = "windows"
    /\ gen.window_size > 0
    /\ \E k \in 1..Len(gen.out) :
          /\ Len(gen.out[k]) >= 2
          /\ k + Len(gen.out[k]) <= Len(checkins)
          /\ Offset(k, k + Len(gen.out[k])) = gen.window_size

\* C4: windows yields exactly one window per record of the timeline, for
\* every window_size, positive or not: one per record passed so far, and as
\* many as there are records when the generator has ended.
C4_OneWindowPerRecord ==
    gen.kind = "windows" =>
        /\ Len(gen.out) = gen.index - 1
        /\ gen.state = "closed" =>
              (Len(gen.out) = Len(checkins) /\ gen.err = "none")

\* C4 witness: windows has ended on a timeline of several records with a
\* window_size that is not positive.
C4_Witness ==
    /\ gen.kind = "windows"
    /\ gen.state = "closed"
    /\ gen.window_size <= 0
    /\ Len(checkins) >= 3
    /\ Len(gen.out) = Len(checkins)

-----------------------------------------------------------------------------
(* Claims about rendezvous *)

\* The records after i, within window_size of it and at its location.
Matches(i, window_size) ==
    {j \in (i + 1)..Len(checkins) :
        /\ Offset(i, j) < window_size
        /\ checkins[j].location = checkins[i].location}

\* The anchors whose group has three or more members.
Oversized(window_size) ==
    {i \in 1..Len(checkins) : Cardinality(Matches(i, window_size)) >= 2}

Min(S) == CHOOSE x \in S : \A y \in S : x <= y

\* The number of anchors to process: all of them, or up to the first
\* anchor with an oversized group.
LastAnchor(window_size) ==
    IF Oversized(window_size) = {} THEN Len(checkins)
    ELSE Min(Oversized(window_size)) - 1

\* The pairs of the anchors 1..n that have exactly one match, in anchor order.
PairsUpTo(n, window_size) ==
    LET anchors == SelectSeq([i \in 1..n |-> i],
                     LAMBDA i : Cardinality(Matches(i, window_size)) = 1)
    IN  [k \in 1..Len(anchors) |->
            <<anchors[k], CHOOSE j \in Matches(anchors[k], window_size) : TRUE>>]

\* C5: every element emitted by rendezvous is a tuple of exactly two
\* records (a, b) of the timeline, a before b in timeline order, at the
\* same location, with b less than window_size after a.
C5_PairsAreValid ==
    gen.kind = "rendezvous" =>
        \A k \in 1..Len(gen.out) :
            LET tup == gen.out[k]
            IN  /\ Len(tup) = 2
                /\ 1 <= tup[1] /\ tup[1] < tup[2] /\ tup[2] <= Len(checkins)
                /\ checkins[tup[1]].location = checkins[tup[2]].location
                /\ Offset(tup[1], tup[2]) < gen.window_size

\* C5 witness: rendezvous has emitted two pairs on a timeline that also
\* holds a record at another location.
C5_Witness ==
    /\ gen.kind = "rendezvous"
    /\ Len(gen.out) >= 2
    /\ \E i, j \in 1..Len(checkins) :
          checkins[i].location # checkins[j].location

\* C6: when some window holds the anchor and two or more other records at
\* its location, rendezvous raises DataError at the first such window, emits
\* no pair for that window, and nothing after it: every pair it ever emits
\* belongs to an earlier anchor, and it ends with DataError at that window
\* and in no other case.
C6_OversizedGroupFails ==
    (gen.kind = "rendezvous" /\ gen.window_size > 0) =>
        /\ Oversized(gen.window_size) # {} =>
              /\ \A k \in 1..Len(gen.out) :
                    gen.out[k][1] < Min(Oversized(gen.window_size))
              /\ gen.state = "closed" =>
                    /\ gen.err = "DataError"
                    /\ gen.index = Min(Oversized(gen.window_size)) + 1
                    /\ Len(gen.out) =
                          Len(PairsUpTo(LastAnchor(gen.window_size),
                                        gen.window_size))
        /\ gen.err = "DataError" => Oversized(gen.window_size) # {}

\* C6 witness: rendezvous has ended with DataError after it emitted a pair.
C6_Witness ==
    /\ gen.kind = "rendezvous"
    /\ gen.err = "DataError"
    /\ gen.state = "closed"
    /\ gen.out # <<>>

C10_OutputWindowByWindow ==
    (gen.kind = "rendezvous" /\ gen.window_size > 0) =>
        LET last == LastAnchor(gen.window_size)
            passed == IF gen.index - 1 < last THEN gen.index - 1 ELSE last
        IN  /\ gen.out = PairsUpTo(passed, gen.window_size)
            /\ gen.state = "closed" =>
                  /\ gen.out = PairsUpTo(last, gen.window_size)
                  /\ gen.err = IF Oversized(gen.window_size) = {}
                               THEN "none" ELSE "DataError"

\* C10 witness: rendezvous has ended without an error on a timeline where
\* one anchor was skipped before an anchor that emitted a pair.
C10_Witness ==
    /\ gen.kind = "rendezvous"
    /\ gen.window_size > 0
    /\ gen.state = "closed"
    /\ gen.err = "none"
    /\ Len(gen.out) = 1
    /\ gen.out[1][1] >= 2

-----------------------------------------------------------------------------
(* Claims about the loader and main *)

\* C7: constructing a CheckIn fails with ValueError when the time text is
\* no date-time or the container kind is no member of the enumeration, so
\* no record of such a row is ever in the timeline.
C7_NoUnparsedRecord ==
    \A i \in 1..Len(checkins) :
        /\ checkins[i].time # BadTime
        /\ checkins[i].pokeball \in Pokeballs

\* A row for which load_timeline raises ValueError.
RowRaises(row) == row.cols # 5 \/ PokeballRaises(row.ball_type)

\* C8: in main each of the three failure categories, a file that cannot be
\* opened (OSError), a row that fails to load (ValueError) and a rendezvous
\* group of more than two members met while rendezvous is iterated
\* (DataError), is reported with its own message and ends the process with
\* exit status 1; none of them leaves main as an unhandled exception.
C8_NoFailureEscapes ==
    /\ \A k \in 1..Len(printed) :
          printed[k] \notin {Traceback("OSError"), Traceback("ValueError"),
                             Traceback("DataError")}
    /\ pc = "done" =>
          /\ ~csvfile.exists =>
                (printed = <<Stdout(OSErrorMsg)>> /\ exit_status = 1)
          /\ (\E k \in 1..Len(csvfile.rows) : RowRaises(csvfile.rows[k])) =>
                (printed = <<Stdout(ValueErrorMsg)>> /\ exit_status = 1)
          /\ (/\ Len(checkins) = Len(csvfile.rows)
              /\ \A i \in 1..Len(checkins) : checkins[i].time # BadTime
              /\ args.exchanges
              /\ Oversized(DefaultWindow) # {}) =>
                /\ printed # <<>>
                /\ printed[Len(printed)] = Stdout(DataErrorMsg)
                /\ exit_status = 1

====
